---------------------------- MODULE Spec2Model ----------------------------
(***************************************************************************)
(* A model of inventory_system.py: the stock mapping (a Python dict, kept  *)
(* in insertion order), the caller's log list, the JSON file written by    *)
(* save_data and read by load_data, and one action per function.           *)
(*                                                                         *)
(* Python values are tagged records: [int |-> n], [str |-> chars],         *)
(* [none |-> TRUE], [list |-> seq], [dict |-> seq of [k, v]].  Text is a   *)
(* sequence of one-character strings.  The record `call` holds the last    *)
(* call: its arguments, what it returned or raised, and the mapping and    *)
(* the log list as they were when it was entered.                          *)
(***************************************************************************)
EXTENDS Integers, Sequences, FiniteSets, TLC

VARIABLES stock, logs, file, saved, call

vars == <<stock, logs, file, saved, call>>

(* ------------------------------ bounds -------------------------------- *)

\* Python integers are unbounded: stored quantities are kept in -MaxQty..MaxQty.
MaxQty == 2

\* The caller's log list is kept to at most MaxLogs entries.
MaxLogs == 1

(* --------------------------- Python values ---------------------------- *)

None == [none |-> TRUE]

PyInt(n) == [int |-> n]

PyStr(s) == [str |-> s]

PyList(xs) == [list |-> xs]

PyDict(es) == [dict |-> es]

IsInt(x) == DOMAIN x = {"int"}

IsStr(x) == DOMAIN x = {"str"}

IsDict(x) == DOMAIN x = {"dict"}

\* The item names used as inputs; the second holds a character JSON escapes.
Items == { <<"a">>, <<"b", "\"">> }

\* item arguments: text, and one value that is not text.
ItemArgs == { PyStr(i) : i \in Items } \cup { PyInt(7) }

QtyInputs == {-1, 0, 2}

\* qty arguments: integers, and two values that are not integers.
QtyArgs == { PyInt(n) : n \in QtyInputs } \cup { PyStr(<<"x">>), None }

(* ------------------- dict: an insertion-ordered mapping --------------- *)

Keys(d) == { d[i].k : i \in 1..Len(d) }

Has(d, k) == \E i \in 1..Len(d) : d[i].k = k

Index(d, k) == CHOOSE i \in 1..Len(d) : d[i].k = k

\* d.get(k, default)
DictGet(d, k, default) == IF Has(d, k) THEN d[Index(d, k)].v ELSE default

\* d[k] = v: an existing key keeps its place, a new key goes last.
DictSet(d, k, v) ==
    IF Has(d, k)
    THEN [d EXCEPT ![Index(d, k)] = [k |-> k, v |-> v]]
    ELSE Append(d, [k |-> k, v |-> v])

DictDelAll(d, k) == << >>

\* del d[k]
DictDel(d, k) ==
    LET i == Index(d, k)
    IN  SubSeq(d, 1, i - 1) \o SubSeq(d, i + 1, Len(d))

\* The mapping as a Python value.
PyDictOf(d) == PyDict([i \in 1..Len(d) |-> [k |-> d[i].k, v |-> PyInt(d[i].v)]])

\* dict equality: the same keys with the same values, in any order.
DictEq(x, y) ==
    /\ IsDict(x) /\ IsDict(y)
    /\ Keys(x.dict) = Keys(y.dict)
    /\ \A k \in Keys(x.dict) : DictGet(x.dict, k, None) = DictGet(y.dict, k, None)

(* ------------------------------ text ---------------------------------- *)

Digit(n) == <<"0", "1", "2", "3", "4", "5", "6", "7", "8", "9">>[n + 1]

RECURSIVE NatChars(_)
NatChars(n) == IF n < 10 THEN <<Digit(n)>> ELSE NatChars(n \div 10) \o <<Digit(n % 10)>>

\* str(n) of an integer, as "%d" and json.dump write it.
IntChars(n) == IF n < 0 THEN <<"-">> \o NatChars(-n) ELSE NatChars(n)

(* ----------------------------- add_item ------------------------------- *)

ValidTypesItemOnly(item, qty) == IsStr(item)

\* not (not isinstance(item, str) or not isinstance(qty, int))
ValidTypes(item, qty) == IsStr(item) /\ IsInt(qty)

\* f"{datetime.now()}: Added {qty} of {item}", without the time of day.
LogEntry(qty, item) == <<"Added", " ">> \o IntChars(qty) \o <<" ", "of", " ">> \o item

AddSumOverwrite(d, k, n) == n

\* stock_data.get(item, 0) + qty
AddSum(d, k, n) == DictGet(d, k, 0) + n

\* The record of a call: the mapping, the log list and the file are those at
\* its entry.
Call(op, item, qty, given, ret, raised) ==
    [op |-> op, item |-> item, qty |-> qty, given |-> given, ret |-> ret,
     raised |-> raised, stock_before |-> stock, logs_before |-> logs,
     file_before |-> file]

\* add_item(stock_data, item, qty, logs): logs is the caller's list when
\* given, and a fresh list that is dropped at the return when not.
AddItem(item, qty, given) ==
    /\ IF ~ValidTypes(item, qty)
       THEN /\ UNCHANGED <<stock, logs>>
            /\ call' = Call("add_item", item, qty, given, PyDictOf(stock), "none")
       ELSE IF ~IsInt(qty)
       THEN \* int + str, int + None
            /\ UNCHANGED <<stock, logs>>
            /\ call' = Call("add_item", item, qty, given, None, "TypeError")
       ELSE LET new == AddSum(stock, item.str, qty.int)
            IN  /\ new \in -MaxQty..MaxQty
                /\ given => Len(logs) < MaxLogs
                /\ stock' = DictSet(stock, item.str, new)
                /\ logs' = IF given THEN Append(logs, LogEntry(qty.int, item.str)) ELSE logs
                /\ call' = Call("add_item", item, qty, given, PyDictOf(stock'), "none")
    /\ UNCHANGED <<file, saved>>

(* ---------------------------- remove_item ----------------------------- *)

ExhaustedBelowZero(q) == q < 0

\* stock_data[item] <= 0
Exhausted(q) == q <= 0

RemoveCaughtKeyErrorOnly == {"KeyError"}

\* except KeyError / except TypeError
RemoveCaught == {"KeyError", "TypeError"}

RemoveTryFloor(d, item, qty) ==
    IF ~(IsStr(item) /\ Has(d, item.str))
    THEN [stock |-> d, exc |-> "KeyError"]
    ELSE IF ~IsInt(qty)
    THEN [stock |-> d, exc |-> "TypeError"]
    ELSE LET new == DictGet(d, item.str, 0) - qty.int
         IN  [stock |-> DictSet(d, item.str, IF new <= 0 THEN 0 ELSE new), exc |-> "none"]

\* The body of the try: stock_data[item] -= qty reads the entry (KeyError
\* when there is none; every key is text), subtracts (TypeError when qty is
\* text or None) and stores; an entry that is then <= 0 is deleted.
RemoveTry(d, item, qty) ==
    IF ~(IsStr(item) /\ Has(d, item.str))
    THEN [stock |-> d, exc |-> "KeyError"]
    ELSE IF ~IsInt(qty)
    THEN [stock |-> d, exc |-> "TypeError"]
    ELSE LET new == DictGet(d, item.str, 0) - qty.int
             d1  == DictSet(d, item.str, new)
         IN  [stock |-> IF Exhausted(new) THEN DictDel(d1, item.str) ELSE d1,
              exc |-> "none"]

\* remove_item(stock_data, item, qty)
RemoveItem(item, qty) ==
    LET r == RemoveTry(stock, item, qty)
        caught == r.exc \in RemoveCaught
    IN  /\ \A i \in 1..Len(r.stock) : r.stock[i].v \in -MaxQty..MaxQty
        /\ stock' = r.stock
        /\ call' = Call("remove_item", item, qty, FALSE,
                        IF r.exc = "none" \/ caught THEN PyDictOf(r.stock) ELSE None,
                        IF caught THEN "none" ELSE r.exc)
        /\ UNCHANGED <<logs, file, saved>>

(* ------------------------------ get_qty ------------------------------- *)

\* stock_data.get(item, 0); every key is text.
QtyOf(d, item) == IF IsStr(item) THEN DictGet(d, item.str, 0) ELSE 0

\* get_qty(stock_data, item)
GetQty(item) ==
    /\ call' = Call("get_qty", item, None, FALSE, PyInt(QtyOf(stock, item)), "none")
    /\ UNCHANGED <<stock, logs, file, saved>>

(* -------------------------- check_low_items --------------------------- *)

\* threshold=5
DefaultThreshold == 5

\* threshold arguments: None stands for a call that gives none.
ThresholdArgs == { PyInt(n) : n \in {0, 2} } \cup { None }

LowOrEqual(q, threshold) == q <= threshold

\* q < threshold
Low(q, threshold) == q < threshold

\* [i for i, q in stock_data.items() if q < threshold]
RECURSIVE LowItems(_, _)
LowItems(d, threshold) ==
    IF d = << >> THEN << >>
    ELSE (IF Low(Head(d).v, threshold) THEN <<PyStr(Head(d).k)>> ELSE << >>)
         \o LowItems(Tail(d), threshold)

\* check_low_items(stock_data, threshold=5)
CheckLowItems(threshold) ==
    LET t == IF IsInt(threshold) THEN threshold.int ELSE DefaultThreshold
    IN  /\ call' = Call("check_low_items", None, threshold, FALSE,
                        PyList(LowItems(stock, t)), "none")
        /\ UNCHANGED <<stock, logs, file, saved>>

(* ------------------------ json.dump(indent=4) ------------------------- *)

EscapeNothing(c) == <<c>>

\* The string encoder's escapes of the quote and the backslash.
EscapeChar(c) ==
    IF c = "\"" THEN <<"\\", "\"">>
    ELSE IF c = "\\" THEN <<"\\", "\\">>
    ELSE <<c>>

RECURSIVE EscapeChars(_)
EscapeChars(s) == IF s = << >> THEN << >> ELSE EscapeChar(Head(s)) \o EscapeChars(Tail(s))

\* A key as a JSON string.
JsonString(s) == <<"\"">> \o EscapeChars(s) \o <<"\"">>

\* indent=4: each entry on a line of its own, after a newline and four spaces.
NewlineIndent == <<"\n", " ", " ", " ", " ">>

\* "key": value
JsonEntry(e) == JsonString(e.k) \o <<":", " ">> \o IntChars(e.v)

RECURSIVE JsonEntries(_)
JsonEntries(d) ==
    IF Len(d) = 1 THEN JsonEntry(d[1])
    ELSE JsonEntry(Head(d)) \o <<",">> \o NewlineIndent \o JsonEntries(Tail(d))

\* json.dump(stock_data, f, indent=4) of a mapping from text to integers.
JsonDump(d) ==
    IF d = << >> THEN <<"{", "}">>
    ELSE <<"{">> \o NewlineIndent \o JsonEntries(d) \o <<"\n", "}">>

(* ----------------------------- json.load ------------------------------ *)
(* The decoder for objects, arrays, strings and integers.  Floats, the     *)
(* literals true, false and null, and \u escapes are not modelled: no text *)
(* the specifications read holds them.                                     *)

Whitespace == {" ", "\t", "\n", "\r"}

Digits == {"0", "1", "2", "3", "4", "5", "6", "7", "8", "9"}

DigitVal(c) == CHOOSE n \in 0..9 : Digit(n) = c

Fail == [ok |-> FALSE]

Ok(v, next) == [ok |-> TRUE, val |-> v, next |-> next]

RECURSIVE SkipWs(_, _)
SkipWs(s, i) == IF i <= Len(s) /\ s[i] \in Whitespace THEN SkipWs(s, i + 1) ELSE i

\* What follows a backslash, and the character it stands for.
Unescape(c) ==
    CASE c = "\"" -> "\""
      [] c = "\\" -> "\\"
      [] c = "/"  -> "/"
      [] c = "n"  -> "\n"
      [] c = "t"  -> "\t"
      [] c = "r"  -> "\r"
      [] OTHER    -> "invalid"

\* The characters of a string, from after its opening quote to its closing one.
RECURSIVE ScanString(_, _, _)
ScanString(s, i, acc) ==
    IF i > Len(s) THEN Fail
    ELSE IF s[i] = "\"" THEN Ok(acc, i + 1)
    ELSE IF s[i] = "\\"
    THEN IF i + 1 > Len(s) \/ Unescape(s[i + 1]) = "invalid" THEN Fail
         ELSE ScanString(s, i + 2, Append(acc, Unescape(s[i + 1])))
    ELSE IF s[i] \in {"\n", "\t", "\r"} THEN Fail
    ELSE ScanString(s, i + 1, Append(acc, s[i]))

RECURSIVE ScanDigits(_, _, _)
ScanDigits(s, i, acc) ==
    IF i <= Len(s) /\ s[i] \in Digits
    THEN ScanDigits(s, i + 1, 10 * acc + DigitVal(s[i]))
    ELSE [val |-> acc, next |-> i]

\* -?(0|[1-9][0-9]*)
ScanNumber(s, i) ==
    LET neg == s[i] = "-"
        j   == IF neg THEN i + 1 ELSE i
    IN  IF j > Len(s) \/ s[j] \notin Digits THEN Fail
        ELSE IF s[j] = "0" THEN Ok(PyInt(0), j + 1)
        ELSE LET n == ScanDigits(s, j, 0)
             IN  Ok(PyInt(IF neg THEN -n.val ELSE n.val), n.next)

RECURSIVE ScanValue(_, _)
RECURSIVE ScanPairs(_, _, _)
RECURSIVE ScanElements(_, _, _)

\* The value that starts at s[i].
ScanValue(s, i) ==
    IF i > Len(s) THEN Fail
    ELSE IF s[i] = "\""
    THEN LET r == ScanString(s, i + 1, << >>)
         IN  IF r.ok THEN Ok(PyStr(r.val), r.next) ELSE Fail
    ELSE IF s[i] = "{"
    THEN LET j == SkipWs(s, i + 1)
         IN  IF j <= Len(s) /\ s[j] = "}" THEN Ok(PyDict(<< >>), j + 1)
             ELSE ScanPairs(s, j, << >>)
    ELSE IF s[i] = "["
    THEN LET j == SkipWs(s, i + 1)
         IN  IF j <= Len(s) /\ s[j] = "]" THEN Ok(PyList(<< >>), j + 1)
             ELSE ScanElements(s, j, << >>)
    ELSE IF s[i] = "-" \/ s[i] \in Digits THEN ScanNumber(s, i)
    ELSE Fail

\* The pairs of an object from s[i], where a key must start; a key given
\* twice keeps its first place and its last value.
ScanPairs(s, i, acc) ==
    IF i > Len(s) \/ s[i] # "\"" THEN Fail
    ELSE LET key == ScanString(s, i + 1, << >>)
         IN  IF ~key.ok THEN Fail
             ELSE LET c == SkipWs(s, key.next)
                  IN  IF c > Len(s) \/ s[c] # ":" THEN Fail
                      ELSE LET v == ScanValue(s, SkipWs(s, c + 1))
                           IN  IF ~v.ok THEN Fail
                               ELSE LET e == SkipWs(s, v.next)
                                        pairs == DictSet(acc, key.val, v.val)
                                    IN  IF e > Len(s) THEN Fail
                                        ELSE IF s[e] = "}" THEN Ok(PyDict(pairs), e + 1)
                                        ELSE IF s[e] = ","
                                        THEN ScanPairs(s, SkipWs(s, e + 1), pairs)
                                        ELSE Fail

\* The elements of an array from s[i], where a value must start.
ScanElements(s, i, acc) ==
    LET v == ScanValue(s, i)
    IN  IF ~v.ok THEN Fail
        ELSE LET e == SkipWs(s, v.next)
                 elems == Append(acc, v.val)
             IN  IF e > Len(s) THEN Fail
                 ELSE IF s[e] = "]" THEN Ok(PyList(elems), e + 1)
                 ELSE IF s[e] = "," THEN ScanElements(s, SkipWs(s, e + 1), elems)
                 ELSE Fail

\* json.load: one value, with nothing but whitespace around it.
JsonLoad(s) ==
    LET v == ScanValue(s, SkipWs(s, 1))
    IN  IF ~v.ok THEN Fail
        ELSE IF SkipWs(s, v.next) # Len(s) + 1 THEN Fail
        ELSE v

(* ------------------------ save_data, load_data ------------------------ *)

OpenAppend(f, text) == [exists |-> TRUE, text |-> f.text \o text]

\* open(file, "w") and the write: the file is created or its content replaced.
OpenWrite(f, text) == [exists |-> TRUE, text |-> text]

\* save_data(stock_data, file)
SaveData ==
    /\ file' = OpenWrite(file, JsonDump(stock))
    /\ saved' = [has |-> TRUE, stock |-> stock]
    /\ call' = Call("save_data", None, None, FALSE, None, "none")
    /\ UNCHANGED <<stock, logs>>

\* except FileNotFoundError / except json.JSONDecodeError
LoadCaught == {"FileNotFoundError", "JSONDecodeError"}

\* The body of the try: [val, exc].
LoadTry(f) ==
    IF ~f.exists THEN [val |-> None, exc |-> "FileNotFoundError"]
    ELSE LET r == JsonLoad(f.text)
         IN  IF r.ok THEN [val |-> r.val, exc |-> "none"]
             ELSE [val |-> None, exc |-> "JSONDecodeError"]

\* load_data(file)
LoadData ==
    LET r == LoadTry(file)
    IN  /\ call' = Call("load_data", None, None, FALSE,
                        IF r.exc = "none" THEN r.val
                        ELSE IF r.exc \in LoadCaught THEN PyDict(<< >>) ELSE None,
                        IF r.exc \in LoadCaught THEN "none" ELSE r.exc)
        /\ UNCHANGED <<stock, logs, file, saved>>

(* --------------------------- specifications --------------------------- *)

\* The file before anything is written.
NoFile == [exists |-> FALSE, text |-> << >>]

\* No save_data call yet.
NoSave == [has |-> FALSE, stock |-> << >>]

\* No call yet.
NoCall(f) ==
    [op |-> "none", item |-> None, qty |-> None, given |-> FALSE,
     ret |-> None, raised |-> "none",
     stock_before |-> << >>, logs_before |-> << >>, file_before |-> f]

\* stock_data = {} in main; the caller's log list starts empty.
Init ==
    /\ stock = << >>
    /\ logs = << >>
    /\ file = NoFile
    /\ saved = NoSave
    /\ call = NoCall(file)

\* The calls on the mapping, with arguments of every type.
NextStock ==
    \/ \E item \in ItemArgs, qty \in QtyArgs, given \in BOOLEAN : AddItem(item, qty, given)
    \/ \E item \in ItemArgs, qty \in QtyArgs : RemoveItem(item, qty)
    \/ \E item \in ItemArgs : GetQty(item)
    \/ \E threshold \in ThresholdArgs : CheckLowItems(threshold)

SpecStock == Init /\ [][NextStock]_vars

\* The calls of main: text items, integer quantities, no log list, one file.
NextFile ==
    \/ \E item \in Items, qty \in QtyInputs : AddItem(PyStr(item), PyInt(qty), FALSE)
    \/ \E item \in Items, qty \in QtyInputs : RemoveItem(PyStr(item), PyInt(qty))
    \/ \E item \in Items : GetQty(PyStr(item))
    \/ CheckLowItems(None)
    \/ SaveData
    \/ LoadData

\* A mapping with quantities of several digits, as add_item("a", 120) and
\* add_item("b\"", -7) leave it.
WideStock == <<[k |-> <<"a">>, v |-> 120], [k |-> <<"b", "\"">>, v |-> -7]>>

\* main's empty mapping, or the wide one; no file yet.
InitFile ==
    /\ stock \in {<< >>, WideStock}
    /\ logs = << >>
    /\ file = NoFile
    /\ saved = NoSave
    /\ call = NoCall(file)

SpecFile == InitFile /\ [][NextFile]_vars

(* ------------------------- load_data on texts ------------------------- *)

\* json.dump's text of a mapping with quantities of several digits.
DocIndented == JsonDump(WideStock)

\* An object on one line, with one key given twice.
DocCompact == <<"{", "\"", "a", "\"", ":", "1", ",", "\"", "a", "\"", ":", "2", "0", "}">>

\* Texts that parse but are no object.
DocList == <<"[", "1", ",", " ", "2", "0", "]", "\n">>

DocNumber == <<"-", "5">>

DocString == <<"\"", "a", "\"">>

\* An object whose values are no integers.
DocNested == <<"{", "\"", "a", "\"", ":", " ", "[", "1", "]", ",", " ", "\"", "b", "\"", ":", " ", "{", "}", "}">>

\* Texts that do not parse.
DocExtraData == <<"{", "}", " ", "x">>

DocLeadingZero == <<"{", "\"", "a", "\"", ":", " ", "0", "1", "}">>

DocTrailingComma == <<"{", "\"", "a", "\"", ":", " ", "1", ",", "}">>

Documents ==
    {DocIndented, DocCompact, DocList, DocNumber, DocString, DocNested,
     DocExtraData, DocLeadingZero, DocTrailingComma}

\* Every document, and every truncation of one.
Contents == UNION { { SubSeq(doc, 1, n) : n \in 0..Len(doc) } : doc \in Documents }

\* A file with any of the contents, or no file; no call yet.
InitJson ==
    /\ stock = << >>
    /\ logs = << >>
    /\ file \in { [exists |-> TRUE, text |-> t] : t \in Contents } \cup { NoFile }
    /\ saved = NoSave
    /\ call = NoCall(file)

NextJson == LoadData

SpecJson == InitJson /\ [][NextJson]_vars

(* ------------------------------- claims ------------------------------- *)

\* The key the call was given, when it was given text.
IsItem(k) == call.item = PyStr(k)

\* C1, as stated: at the return of each add_item and remove_item call no
\* key of the mapping has a quantity that is zero or negative.
C1_NoNonPositiveQuantity == \A k \in Keys(stock) : DictGet(stock, k, 0) > 0

\* C1, amended: at the return of each call a key has a zero or negative
\* quantity only if the call was an add_item of that key and the quantity is
\* its prior quantity (0 when absent) plus qty, or the key had that quantity
\* before the call and the call was not a remove_item of that key with an
\* integer qty.
C1_NonPositiveOnlyFromAdd ==
    \A k \in Keys(stock) :
        DictGet(stock, k, 0) <= 0 =>
            \/ /\ call.op = "add_item" /\ IsItem(k) /\ IsInt(call.qty)
               /\ DictGet(stock, k, 0) = DictGet(call.stock_before, k, 0) + call.qty.int
            \/ /\ Has(call.stock_before, k)
               /\ DictGet(call.stock_before, k, 0) = DictGet(stock, k, 0)
               /\ ~(call.op = "remove_item" /\ IsItem(k) /\ IsInt(call.qty))

\* An add_item call has left its item with a negative quantity.
C1_Witness ==
    /\ call.op = "add_item"
    /\ \E k \in Keys(stock) : IsItem(k) /\ DictGet(stock, k, 0) < 0

\* C2: get_qty right after add_item(stock, item, qty), for a text item and
\* an integer qty, is get_qty before the call (0 when absent) plus qty.
C2_AddThenGetQty ==
    (call.op = "add_item" /\ IsStr(call.item) /\ IsInt(call.qty)) =>
        QtyOf(stock, call.item) = QtyOf(call.stock_before, call.item) + call.qty.int

\* An add_item call has added a nonzero qty to an item that was in stock.
C2_Witness ==
    /\ call.op = "add_item" /\ IsStr(call.item) /\ IsInt(call.qty)
    /\ Has(call.stock_before, call.item.str)
    /\ call.qty.int # 0

\* C3: remove_item of a present item with quantity c and an integer qty
\* leaves it at c - qty when c - qty > 0 and absent when c - qty <= 0.
C3_RemoveDecrementsOrDeletes ==
    (/\ call.op = "remove_item" /\ IsStr(call.item) /\ IsInt(call.qty)
     /\ Has(call.stock_before, call.item.str)) =>
        LET k == call.item.str
            n == DictGet(call.stock_before, k, 0) - call.qty.int
        IN  /\ n > 0 => Has(stock, k) /\ DictGet(stock, k, 0) = n
            /\ n <= 0 => ~Has(stock, k)

\* A remove_item call has taken more than the positive quantity in stock.
C3_Witness ==
    /\ call.op = "remove_item" /\ IsStr(call.item) /\ IsInt(call.qty)
    /\ Has(call.stock_before, call.item.str)
    /\ DictGet(call.stock_before, call.item.str, 0) > 0
    /\ call.qty.int > DictGet(call.stock_before, call.item.str, 0)
    /\ ~Has(stock, call.item.str)

\* The call was given an item that was not in the mapping.
ItemAbsentBefore == ~(IsStr(call.item) /\ Has(call.stock_before, call.item.str))

\* C4: a remove_item call whose item is absent or whose qty cannot be
\* subtracted raises nothing and returns the mapping as it was.
C4_FailedRemoveChangesNothing ==
    (call.op = "remove_item" /\ (ItemAbsentBefore \/ ~IsInt(call.qty))) =>
        /\ call.raised = "none"
        /\ stock = call.stock_before
        /\ call.ret = PyDictOf(call.stock_before)

\* A remove_item call was given text as the qty of an item in stock.
C4_Witness ==
    /\ call.op = "remove_item" /\ ~ItemAbsentBefore /\ IsStr(call.qty)
    /\ call.stock_before # << >>

\* C5: an add_item call whose item is not text or whose qty is not an
\* integer raises nothing, returns the mapping as it was and appends nothing
\* to the log list it was given; a call that passes both checks appends
\* exactly one entry to it, and nothing else appends.
C5_InvalidAddChangesNothing ==
    /\ (call.op = "add_item" /\ (~IsStr(call.item) \/ ~IsInt(call.qty))) =>
           /\ call.raised = "none"
           /\ stock = call.stock_before
           /\ call.ret = PyDictOf(call.stock_before)
           /\ logs = call.logs_before
    /\ (call.op = "add_item" /\ IsStr(call.item) /\ IsInt(call.qty) /\ call.given) =>
           /\ Len(logs) = Len(call.logs_before) + 1
           /\ SubSeq(logs, 1, Len(call.logs_before)) = call.logs_before
    /\ logs # call.logs_before =>
           call.op = "add_item" /\ IsStr(call.item) /\ IsInt(call.qty) /\ call.given

\* An add_item call was given a log list that holds an entry and a qty
\* that is text.
C5_Witness ==
    /\ call.op = "add_item" /\ IsStr(call.item) /\ IsStr(call.qty) /\ call.given
    /\ call.logs_before # << >>

\* C6: load_data after save_data(stock) on the same path returns a mapping
\* with the keys of stock and the same integer for each key.
C6_SaveThenLoad ==
    (call.op = "load_data" /\ saved.has) =>
        /\ call.raised = "none"
        /\ DictEq(call.ret, PyDictOf(saved.stock))

\* load_data has read back a saved mapping of two items, one with a
\* quantity of several digits and one with a negative quantity, that is
\* still the mapping in memory.
C6_Witness ==
    /\ call.op = "load_data" /\ saved.has
    /\ saved.stock = stock
    /\ Len(stock) = 2
    /\ \E k \in Keys(stock) : DictGet(stock, k, 0) >= 10
    /\ \E k \in Keys(stock) : DictGet(stock, k, 0) < 0

\* The text parses as an object.
ParsesAsObject(text) == LET r == JsonLoad(text) IN r.ok /\ IsDict(r.val)

\* C7: load_data on an existing file whose content is no valid object,
\* unparseable or parseable but not an object, returns an empty mapping and
\* raises nothing.
C7_InvalidContentLoadsEmpty ==
    (call.op = "load_data" /\ file.exists /\ ~ParsesAsObject(file.text)) =>
        /\ call.raised = "none"
        /\ call.ret = PyDict(<< >>)

\* C8: check_low_items returns exactly the items whose quantity is strictly
\* less than the threshold (5 when none is given), each once, in the
\* mapping's order, and leaves the mapping unchanged.
C8_LowItemsExactly ==
    call.op = "check_low_items" =>
        LET t  == IF IsInt(call.qty) THEN call.qty.int ELSE 5
            xs == call.ret.list
        IN  /\ \A i \in 1..Len(xs) :
                   /\ IsStr(xs[i]) /\ Has(stock, xs[i].str)
                   /\ DictGet(stock, xs[i].str, 0) < t
            /\ \A k \in Keys(stock) :
                   DictGet(stock, k, 0) < t => \E i \in 1..Len(xs) : xs[i] = PyStr(k)
            /\ \A i, j \in 1..Len(xs) :
                   i < j => Index(stock, xs[i].str) < Index(stock, xs[j].str)
            /\ stock = call.stock_before

\* check_low_items was given a threshold that one item's quantity equals
\* and another's is below, and returned one item.
C8_Witness ==
    /\ call.op = "check_low_items" /\ IsInt(call.qty)
    /\ \E k \in Keys(stock) : DictGet(stock, k, 0) = call.qty.int
    /\ \E k \in Keys(stock) : DictGet(stock, k, 0) < call.qty.int
    /\ Len(call.ret.list) = 1

\* C9: the file holds exactly the mapping passed to the most recent
\* save_data call, whatever it held before, and no other call changes it.
C9_FileIsLatestSnapshot ==
    /\ saved.has => file = [exists |-> TRUE, text |-> JsonDump(saved.stock)]
    /\ ~saved.has => file = NoFile
    /\ call.op # "save_data" => file = call.file_before

\* save_data has replaced a longer content by a shorter one.
C9_Witness ==
    /\ call.op = "save_data"
    /\ call.file_before.exists
    /\ Len(call.file_before.text) > Len(file.text)

\* C10: an add_item or remove_item call leaves every key other than its
\* item as it was, present or absent, with the same quantity.
C10_OtherKeysUntouched ==
    call.op \in {"add_item", "remove_item"} =>
        \A k \in Items :
            ~IsItem(k) =>
                /\ Has(stock, k) <=> Has(call.stock_before, k)
                /\ DictGet(stock, k, 0) = DictGet(call.stock_before, k, 0)

\* A remove_item call has deleted its item from a mapping of two.
C10_Witness ==
    /\ call.op = "remove_item"
    /\ Len(call.stock_before) = 2
    /\ Len(stock) = 1

=============================================================================
